---- MODULE Spec2Model ----
(***************************************************************************)
(* A model of the RAG chat application's chunker, evaluation engine and    *)
(* chat handler.                                                           *)
(*                                                                         *)
(*   scripts/ingest_data.py    split_text, ingest_directory                *)
(*   scripts/evaluate_rag.py   _tokenize, _safe_mean, _p95, _metric,       *)
(*                             evaluate_and_save                           *)
(*   app/rag.py                RAGService (embedding / generation calls,   *)
(*                             generate_answer)                            *)
(*   app/main.py               send_message                                *)
(*                                                                         *)
(* Text is a sequence of one-character strings, so that strip(), lower(),  *)
(* slicing and the regular expression of _tokenize are computed character  *)
(* by character as Python computes them.                                   *)
(***************************************************************************)
EXTENDS Integers, Sequences, FiniteSets, TLC

VARIABLES
    \* ---- scripts/ingest_data.py: split_text / ingest_directory
    raw_text,       \* the text argument as passed by the caller
    text,           \* the local `text` after text.strip()
    chunk_size,     \* argument
    overlap,        \* argument
    start,          \* loop variable
    chunks,         \* the list the loop appends to
    split_result,   \* the list split_text returns
    split_pc,       \* "call" | "loop" | "filter" | "returned" | "off"
    documents,      \* store.documents: the chunk texts of the collection
    \* ---- scripts/evaluate_rag.py: evaluate_and_save
    ground_truth,   \* the rows loaded from the ground-truth file
    top_k,          \* argument
    call_us,        \* microseconds one provider or store call takes in this run
    ground_truth_exists, \* ground_truth_path.exists()
    openai_api_key, \* TRUE when settings.openai_api_key is configured
    output_before,  \* the file at output_path as the run found it, None if absent
    docs,           \* the chunks the collection held at line 53
    output_file,    \* the file at output_path, None if absent
    output_writes,  \* how often the run has written the file at output_path
    seeded,         \* how often the run has reseeded the prompt templates
    ingested,       \* how often the run has called ingest_directory
    clock,          \* time.perf_counter(), in microseconds
    eval_pc,        \* "off" | "call" | "start" | "embed" | "retrieve" | "generate" |
                    \* "finish" | "done" | "raised" (by a provider call of the
                    \* loop) | "not_found" | "config_error" | "ingest_raised"
    row_idx,        \* position in ground_truth of the row being processed
    total_start,
    retrieval_start,
    retrieval_us,   \* retrieval_ms, in microseconds
    retrieved_chunks,
    per_question,
    retrieval_latencies,
    generation_latencies,
    total_latencies,
    reciprocal_ranks,
    precision_scores,
    answer_context_overlaps,
    expected_keyword_coverages,
    report,         \* None, or the report written to output_path and returned
    calls,          \* the provider and store calls made so far, in order
    \* ---- app/main.py: send_message
    rag_service,    \* TRUE when RAGService() could be built at import (line 23)
    messages,       \* store.messages: the stored messages of the chat, oldest first
    request,        \* the request being handled, None between requests
    context_chunks, \* the local of send_message
    chat_calls,     \* the provider and store calls of the request being handled
    response,       \* the last response sent, None before the first
    requests_made,  \* the number of requests received so far
    chat_pc,        \* "off" | "idle" | "retrieve" | "generate"
    \* ---- scripts/evaluate_rag.py: _p95
    p95_values,     \* the argument
    p95_result,     \* None, or what the call returned
    p95_first,      \* None, or what the first call on these values returned
    p95_swaps,      \* how often the caller has reordered the values since
    p95_pc,         \* "off" | "call" | "returned"
    \* ---- app/rag.py: RAGService.generate_answer
    gen_args,       \* user_message, context_chunks, history, prompt_template
    gen_sent,       \* the requests made to the generation provider, in order
    gen_content,    \* None, or the content of the provider's response
    gen_result,     \* None, or what the call returned
    gen_pc          \* "off" | "call" | "sent" | "returned" | "raised"

splitLocals == <<raw_text, text, chunk_size, overlap, start, chunks, split_result, split_pc>>

splitVars == <<splitLocals, documents>>

evalArgs == <<ground_truth, top_k, call_us, ground_truth_exists, openai_api_key,
              output_before>>

evalStore == <<docs, output_file, output_writes, seeded, ingested>>

evalRow == <<total_start, retrieval_start, retrieval_us, retrieved_chunks>>

evalLists == <<per_question, retrieval_latencies, generation_latencies,
               total_latencies, reciprocal_ranks, precision_scores,
               answer_context_overlaps, expected_keyword_coverages>>

evalVars == <<evalArgs, evalStore, clock, eval_pc, row_idx, evalRow, evalLists, report,
              calls>>

chatVars == <<rag_service, messages, request, context_chunks, chat_calls, response,
              requests_made, chat_pc>>

p95Vars == <<p95_values, p95_result, p95_first, p95_swaps, p95_pc>>

genVars == <<gen_args, gen_sent, gen_content, gen_result, gen_pc>>

\* the state of the calls of single functions
funcVars == <<p95Vars, genVars>>

vars == <<splitVars, evalVars, chatVars, funcVars>>

----------------------------------------------------------------------------
(* Bounds of the model *)

\* most requests sent to send_message
MaxRequests == 2
\* longest text handed to split_text
MaxLen == 5
\* largest chunk_size argument
MaxChunkSize == 3
\* largest overlap argument
MaxOverlap == 3
\* most rows of a ground-truth file (a file with several rows is evaluated
\* with the default top_k)
MaxCases == 2
\* largest top_k argument of evaluate_and_save
MaxTopK == 5
\* how long a provider or store call takes, in microseconds, in the runs in
\* which the clock advances at all
MaxCallUs == 1234

----------------------------------------------------------------------------
(* Text helpers *)

Chars(s) == [i \in 1..Len(s) |-> SubSeq(s, i, i)]

Min(a, b) == IF a < b THEN a ELSE b
Max(a, b) == IF a > b THEN a ELSE b

\* str.strip() with no argument removes these from both ends
Whitespace == {" ", "\n", "\t"}

RECURSIVE LStrip(_)
LStrip(s) == IF s # <<>> /\ Head(s) \in Whitespace THEN LStrip(Tail(s)) ELSE s

RECURSIVE RStrip(_)
RStrip(s) ==
    IF s # <<>> /\ s[Len(s)] \in Whitespace THEN RStrip(SubSeq(s, 1, Len(s) - 1)) ELSE s

Strip(s) == RStrip(LStrip(s))

\* Python's s[a:b] for 0 <= a and 0 <= b (indices beyond the end are clipped)
Slice(s, a, b) == SubSeq(s, a + 1, Min(b, Len(s)))

\* all sequences over S of length at most n
SeqsUpTo(S, n) == UNION {[1..k -> S] : k \in 0..n}

\* str.join
RECURSIVE Join(_, _)
Join(sep, parts) ==
    IF parts = <<>> THEN <<>>
    ELSE IF Len(parts) = 1 THEN Head(parts)
    ELSE Head(parts) \o sep \o Join(sep, Tail(parts))

\* `needle in haystack` for two strings
Contains(haystack, needle) ==
    \E i \in 0..(Len(haystack) - Len(needle)) :
        SubSeq(haystack, i + 1, i + Len(needle)) = needle

UpperCase == Chars("ABCDEFGHIJKLMNOPQRSTUVWXYZ")
LowerCase == Chars("abcdefghijklmnopqrstuvwxyz")
Digits == Chars("0123456789")

\* str.lower, on the ASCII letters
ToLower == [c \in {UpperCase[i] : i \in 1..Len(UpperCase)} |->
               LowerCase[CHOOSE i \in 1..Len(UpperCase) : UpperCase[i] = c]]

LowerChar(c) == IF c \in DOMAIN ToLower THEN ToLower[c] ELSE c

Lower(s) == [i \in 1..Len(s) |-> LowerChar(s[i])]

\* the character class [a-zA-Z0-9]
Alnum ==
    {UpperCase[i] : i \in 1..Len(UpperCase)} \cup {LowerCase[i] : i \in 1..Len(LowerCase)}
        \cup {Digits[i] : i \in 1..Len(Digits)}

\* an optional value: Python's None, or a value
None == {}
Some(x) == {x}
Get(o) == CHOOSE x \in o : TRUE

\* `o or ""` for an optional string
OrEmpty(o) == IF o = None THEN <<>> ELSE Get(o)

\* dict.get(key): None when the key is missing
DictGet(d, key) == IF key \in DOMAIN d THEN d[key] ELSE None

\* the elements of a sequence
Range(f) == {f[i] : i \in 1..Len(f)}

----------------------------------------------------------------------------
(* Numbers: a float is modelled by the exact fraction it approximates *)

RECURSIVE GCD(_, _)
GCD(a, b) == IF b = 0 THEN a ELSE GCD(b, a % b)

\* n / d in lowest terms, for n >= 0 and d > 0
Rat(n, d) == LET g == GCD(n, d) IN [num |-> n \div g, den |-> d \div g]

Zero == Rat(0, 1)
One == Rat(1, 1)

RatAdd(x, y) == Rat(x.num * y.den + y.num * x.den, x.den * y.den)

RECURSIVE RatSum(_)
RatSum(xs) == IF xs = <<>> THEN Zero ELSE RatAdd(Head(xs), RatSum(Tail(xs)))

\* x >= n / d
RatGE(x, n, d) == x.num * d >= n * x.den

RatLE(x, y) == x.num * y.den <= y.num * x.den

RECURSIVE Pow10(_)
Pow10(k) == IF k = 0 THEN 1 ELSE 10 * Pow10(k - 1)

\* round(x, digits): to the nearest multiple of 10^-digits, a tie to the even one
Round(x, digits) ==
    LET scaled == x.num * Pow10(digits)
        q == scaled \div x.den
        r == scaled % x.den
        up == IF 2 * r > x.den THEN 1 ELSE IF 2 * r = x.den THEN q % 2 ELSE 0
    IN  Rat(q + up, Pow10(digits))

\* float(n) for an int n
Float(n) == Rat(n, 1)

Floats(ns) == [i \in 1..Len(ns) |-> Float(ns[i])]

----------------------------------------------------------------------------
(* app/rag.py, app/chroma_store.py: what the evaluation calls *)

\* one provider or store call made by a run: which row it was made for
Call(case, name) == [case |-> case, name |-> name]

\* config.py line 19: settings.rag_top_k, the n_results of every query
RagTopK == 4

\* rag.py line 64: `content or "I could not generate a response."`
NoResponse == Chars("I could not generate a response.")

\* generate_answer, line 64: what it returns for the provider's content
GenerateAnswer(content) ==
    IF content = None \/ Get(content) = <<>> THEN NoResponse ELSE Get(content)

\* chroma_store.py line 266: the source of a chunk stored without one
UnknownSource == Chars("unknown.pdf")

\* one entry of a collection query result: (document, metadata, distance)
Entry(doc, source, dist) ==
    [document |-> doc, metadata |-> Some([source |-> source]), distance |-> Some(dist)]

BareEntry(doc) == [document |-> doc, metadata |-> None, distance |-> None]

\* query_document_chunks, lines 262-271
QueryItem(e) ==
    [source |-> IF e.metadata # None /\ "source" \in DOMAIN Get(e.metadata)
                THEN Get(e.metadata).source
                ELSE UnknownSource,
     chunk_text |-> e.document,
     distance |-> e.distance]

QueryDocumentChunks(entries) == [i \in 1..Len(entries) |-> QueryItem(entries[i])]

----------------------------------------------------------------------------
(* scripts/evaluate_rag.py: the functions of the module *)

\* line 45: the default of the top_k argument
DefaultTopK == 4

\* line 13
FALLBACK_RESPONSE == Chars("I can only answer from the provided PDF documents.")

\* re.findall(r"[a-zA-Z0-9]+", s): the maximal runs of alphanumeric characters
RECURSIVE Runs(_, _)
Runs(s, cur) ==
    IF s = <<>> THEN (IF cur = <<>> THEN {} ELSE {cur})
    ELSE IF Head(s) \in Alnum THEN Runs(Tail(s), Append(cur, Head(s)))
    ELSE (IF cur = <<>> THEN {} ELSE {cur}) \cup Runs(Tail(s), <<>>)

\* lines 16-17
Tokenize(s) == Runs(Lower(s), <<>>)

SafeMeanOrOne(values) ==
    IF values # <<>>
    THEN LET total == RatSum(values) IN Rat(total.num, total.den * Len(values))
    ELSE One

\* lines 20-21: float(statistics.mean(values)) if values else 0.0
SafeMean(values) ==
    IF values # <<>>
    THEN LET total == RatSum(values) IN Rat(total.num, total.den * Len(values))
    ELSE Zero

\* lines 32-39
Metric(metric_key, metric_label, metric_value, unit, category) ==
    [metric_key |-> metric_key,
     metric_label |-> metric_label,
     metric_value |-> metric_value,
     unit |-> unit,
     category |-> category]

----------------------------------------------------------------------------
(* scripts/evaluate_rag.py: evaluate_and_save, the scoring of one row *)

\* line 73
Question(row) == Strip(OrEmpty(DictGet(row, "question")))

\* line 74
ExpectedSource(row) == DictGet(row, "expected_source")

\* line 75: row.get("expected_answer_keywords", []), each item lower-cased
ExpectedKeywords(row) ==
    LET items == IF "expected_answer_keywords" \in DOMAIN row
                 THEN row["expected_answer_keywords"] ELSE <<>>
    IN  [i \in 1..Len(items) |-> Lower(items[i])]

\* the truth value of an optional string: neither None nor ""
Truthy(o) == o # None /\ Get(o) # <<>>

\* `o in xs` for an optional string and a list of strings
In(o, xs) == o # None /\ Get(o) \in Range(xs)

\* line 84
RetrievedSources(cs) == [i \in 1..Len(cs) |-> cs[i].source]

\* line 85: list(dict.fromkeys(xs)), the first occurrences in order
RECURSIVE FromKeys(_, _)
FromKeys(xs, seen) ==
    IF xs = <<>> THEN <<>>
    ELSE IF Head(xs) \in seen THEN FromKeys(Tail(xs), seen)
    ELSE <<Head(xs)>> \o FromKeys(Tail(xs), seen \cup {Head(xs)})

UniqueSources(cs) == FromKeys(RetrievedSources(cs), {})

\* line 86
TopSource(unique_sources) ==
    IF unique_sources # <<>> THEN Some(unique_sources[1]) ELSE None

HitAt1Unguarded(top_source, expected_source) ==
    IF top_source = expected_source THEN 1 ELSE 0

\* line 88
HitAt1(top_source, expected_source) ==
    IF Truthy(expected_source)
    THEN (IF top_source = expected_source THEN 1 ELSE 0)
    ELSE 0

HitAtOffByOne(k, unique_sources, expected_source) ==
    IF Truthy(expected_source)
    THEN (IF In(expected_source, Slice(unique_sources, 0, k - 1)) THEN 1 ELSE 0)
    ELSE 0

\* lines 89-90, for k = 3 and k = 4
HitAt(k, unique_sources, expected_source) ==
    IF Truthy(expected_source)
    THEN (IF In(expected_source, Slice(unique_sources, 0, k)) THEN 1 ELSE 0)
    ELSE 0

\* list.index(x): the 0-based position of the first occurrence
IndexOf(xs, x) == (CHOOSE i \in 1..Len(xs) : xs[i] = x /\ \A j \in 1..(i - 1) : xs[j] # x) - 1

RankWithinThree(unique_sources, expected_source, k) ==
    IF Truthy(expected_source) /\ In(expected_source, Slice(unique_sources, 0, 3))
    THEN Some(IndexOf(Slice(unique_sources, 0, 3), Get(expected_source)) + 1)
    ELSE None

\* lines 92-96
Rank(unique_sources, expected_source, k) ==
    IF Truthy(expected_source) /\ In(expected_source, Slice(unique_sources, 0, k))
    THEN Some(IndexOf(Slice(unique_sources, 0, k), Get(expected_source)) + 1)
    ELSE None

\* lines 94, 97
ReciprocalRank(rank) == IF rank # None THEN Rat(1, Get(rank)) ELSE Zero

\* line 99
ContextText(cs) == Join(<<"\n", "\n">>, [i \in 1..Len(cs) |-> cs[i].chunk_text])

\* lines 119-121
AnswerContextOverlap(answer_tokens, context_tokens) ==
    IF answer_tokens # {}
    THEN Rat(Cardinality(answer_tokens \cap context_tokens), Cardinality(answer_tokens))
    ELSE Zero

\* line 117
ExpectedTokens(expected_keywords) == Range(expected_keywords)

\* lines 122-124
ExpectedKeywordCoverage(answer_tokens, expected_tokens) ==
    IF expected_tokens # {}
    THEN Rat(Cardinality(answer_tokens \cap expected_tokens), Cardinality(expected_tokens))
    ELSE Zero

GroundedAnyOverlap(answer, answer_context_overlap) ==
    IF Strip(answer) # <<>> THEN 1 ELSE 0

\* line 126
Grounded(answer, answer_context_overlap) ==
    IF Strip(answer) # <<>>
    THEN (IF RatGE(answer_context_overlap, 15, 100) THEN 1 ELSE 0)
    ELSE 0

\* line 127
Refused(answer) == IF Contains(Lower(answer), Lower(FALLBACK_RESPONSE)) THEN 1 ELSE 0

\* line 128
AnswerNonEmpty(answer) == IF Strip(answer) # <<>> THEN 1 ELSE 0

\* lines 130-132
PrecisionAtK(unique_sources, expected_source, k) ==
    Rat(IF In(expected_source, Slice(unique_sources, 0, k)) THEN 1 ELSE 0,
        Max(1, Min(k, Len(unique_sources))))

\* a latency in milliseconds, from microseconds
Ms(us) == Rat(us, 1000)

\* lines 142-165: the record of one row
QuestionRecord(row, cs, answer, k, r_us, g_us, t_us) ==
    LET expected_source == ExpectedSource(row)
        unique_sources == UniqueSources(cs)
        top_source == TopSource(unique_sources)
        context_text == ContextText(cs)
        answer_tokens == Tokenize(answer)
        answer_context_overlap ==
            AnswerContextOverlap(answer_tokens, Tokenize(context_text))
        expected_keyword_coverage ==
            ExpectedKeywordCoverage(answer_tokens, ExpectedTokens(ExpectedKeywords(row)))
    IN  [id |-> DictGet(row, "id"),
         question |-> Question(row),
         expected_source |-> expected_source,
         retrieved_sources |-> unique_sources,
         top_source |-> top_source,
         source_rank |-> Rank(unique_sources, expected_source, k),
         hit_at_1 |-> HitAt1(top_source, expected_source),
         hit_at_3 |-> HitAt(3, unique_sources, expected_source),
         hit_at_4 |-> HitAt(4, unique_sources, expected_source),
         answer |-> answer,
         answer_non_empty |-> AnswerNonEmpty(answer),
         is_refusal |-> Refused(answer),
         is_grounded |-> Grounded(answer, answer_context_overlap),
         answer_context_overlap |-> Round(answer_context_overlap, 4),
         expected_keyword_coverage |-> Round(expected_keyword_coverage, 4),
         retrieval_latency_ms |-> Round(Ms(r_us), 2),
         generation_latency_ms |-> Round(Ms(g_us), 2),
         total_latency_ms |-> Round(Ms(t_us), 2),
         context_chars |-> Len(context_text),
         answer_chars |-> Len(answer)]

----------------------------------------------------------------------------
(* scripts/evaluate_rag.py: evaluate_and_save, the report *)

\* insertion of x into an ascending list
RECURSIVE InsertAsc(_, _)
InsertAsc(x, xs) ==
    IF xs = <<>> THEN <<x>>
    ELSE IF RatLE(x, Head(xs)) THEN <<x>> \o xs
    ELSE <<Head(xs)>> \o InsertAsc(x, Tail(xs))

\* sorted(values)
RECURSIVE Sorted(_)
Sorted(xs) == IF xs = <<>> THEN <<>> ELSE InsertAsc(Head(xs), Sorted(Tail(xs)))

Floor95(n) == (95 * n) \div 100

\* math.ceil(0.95 * n)
Ceil95(n) == (95 * n + 99) \div 100

\* lines 24-29
P95(values) ==
    IF values = <<>> THEN Zero
    ELSE LET sorted_values == Sorted(values)
             index == Max(0, Min(Len(sorted_values) - 1, Ceil95(Len(sorted_values)) - 1))
         IN  sorted_values[index + 1]

\* [row[field] for row in per_question], as floats
Column(pq, field) == [i \in 1..Len(pq) |-> Float(pq[i][field])]

\* lines 167-211
Metrics(pq, r_lat, g_lat, t_lat, rr, prec, aco, ekc) ==
    LET total_questions == Len(pq)
        hit1 == SafeMean(Column(pq, "hit_at_1"))
        hit3 == SafeMean(Column(pq, "hit_at_3"))
        hit4 == SafeMean(Column(pq, "hit_at_4"))
    IN  << Metric("eval_total_questions", "Total Questions", Float(total_questions), "count", "overview"),
           Metric("eval_hit_rate_at_1", "Hit Rate @1", hit1, "ratio", "retrieval"),
           Metric("eval_hit_rate_at_3", "Hit Rate @3", hit3, "ratio", "retrieval"),
           Metric("eval_hit_rate_at_4", "Hit Rate @4", hit4, "ratio", "retrieval"),
           Metric("eval_mrr_at_4", "MRR @4", SafeMean(rr), "ratio", "retrieval"),
           Metric("eval_exact_source_match_rate", "Exact Source Match", hit1, "ratio", "retrieval"),
           Metric("eval_source_precision_at_4", "Source Precision @4", SafeMean(prec), "ratio", "retrieval"),
           Metric("eval_source_recall_at_4", "Source Recall @4", hit4, "ratio", "retrieval"),
           Metric("eval_avg_retrieval_latency_ms", "Avg Retrieval Latency", SafeMean(r_lat), "ms", "latency"),
           Metric("eval_p95_retrieval_latency_ms", "P95 Retrieval Latency", P95(r_lat), "ms", "latency"),
           Metric("eval_avg_generation_latency_ms", "Avg Generation Latency", SafeMean(g_lat), "ms", "latency"),
           Metric("eval_p95_generation_latency_ms", "P95 Generation Latency", P95(g_lat), "ms", "latency"),
           Metric("eval_avg_total_latency_ms", "Avg Total Latency", SafeMean(t_lat), "ms", "latency"),
           Metric("eval_answer_non_empty_rate", "Answer Non-empty Rate",
                  SafeMean(Column(pq, "answer_non_empty")), "ratio", "generation"),
           Metric("eval_refusal_rate", "Refusal Rate",
                  SafeMean(Column(pq, "is_refusal")), "ratio", "generation"),
           Metric("eval_grounded_answer_rate", "Grounded Answer Rate",
                  SafeMean(Column(pq, "is_grounded")), "ratio", "generation"),
           Metric("eval_avg_answer_context_overlap", "Avg Answer-Context Overlap",
                  SafeMean(aco), "ratio", "generation"),
           Metric("eval_avg_expected_keyword_coverage", "Avg Expected Keyword Coverage",
                  SafeMean(ekc), "ratio", "generation"),
           Metric("eval_avg_context_chars", "Avg Context Chars",
                  SafeMean(Column(pq, "context_chars")), "count", "context"),
           Metric("eval_avg_answer_chars", "Avg Answer Chars",
                  SafeMean(Column(pq, "answer_chars")), "count", "context") >>

\* lines 213-221 (generated_at, the two paths and the template id are left out)
Report(k, metrics, pq) ==
    [top_k |-> k,
     total_metrics |-> Len(metrics),
     metrics |-> metrics,
     per_question |-> pq]

----------------------------------------------------------------------------
(* scripts/evaluate_rag.py: the inputs of a run *)

SrcA == Chars("a.pdf")
SrcB == Chars("b.pdf")
SrcC == Chars("c.pdf")
SrcZ == Chars("z.pdf")

\* what the document collection answers a query with, nearest first: at most
\* rag_top_k entries
QueryResults ==
    LET a1 == Chars("Refunds within 30 days.")
        a2 == Chars("Call us.")
        b1 == Chars("Ships in 5 days.")
        b2 == Chars("Free shipping")
        c1 == Chars("Terms")
        u1 == Chars("FAQ")
    IN  { <<>>,
          <<Entry(a1, SrcA, 1)>>,
          <<Entry(a1, SrcA, 1), Entry(a2, SrcA, 2), Entry(b1, SrcB, 3)>>,
          <<Entry(b1, SrcB, 1), Entry(a1, SrcA, 2)>>,
          <<Entry(b1, SrcB, 1), Entry(b2, SrcB, 1), Entry(c1, SrcC, 2), Entry(a1, SrcA, 3)>>,
          <<Entry(b1, SrcB, 1), Entry(c1, SrcC, 2), BareEntry(u1), Entry(a2, SrcA, 4)>> }

\* what the generation provider answers with: no content, an answer, the
\* refusal the system prompt asks for, blank text
Completions ==
    { None,
      Some(Chars("Refunds: 30 Days.")),
      Some(FALLBACK_RESPONSE),
      Some(Chars(" \n")) }

KeywordLists ==
    { <<>>,
      <<Chars("30"), Chars("Days")>>,
      <<Chars("30 days")>>,
      <<Chars("refund-policy"), Chars("30")>> }

TheQuestion == Some(Chars(" Refund window? "))

RowId(j) == Some(<<"q", Digits[j + 1]>>)

\* the rows of a one-row ground-truth file: expected_source missing, null,
\* empty, a retrieved source, a source that is never retrieved
RichRows ==
    {[id |-> RowId(1), question |-> TheQuestion, expected_source |-> e,
      expected_answer_keywords |-> k] :
        e \in {None, Some(<<>>), Some(SrcA), Some(SrcB), Some(SrcZ)}, k \in KeywordLists}
    \cup {[id |-> RowId(1), question |-> TheQuestion, expected_answer_keywords |-> k] :
            k \in KeywordLists}
    \cup {[id |-> RowId(1)]}

\* row j of a ground-truth file with several rows
ThinRow(j) ==
    [id |-> RowId(j), question |-> TheQuestion, expected_source |-> Some(SrcA),
     expected_answer_keywords |-> <<Chars("30"), Chars("Days")>>]

GroundTruths ==
    {<<>>} \cup {<<r>> : r \in RichRows}
        \cup {[j \in 1..n |-> ThinRow(j)] : n \in 2..MaxCases}

\* the chunk texts of a collection that ingestion has filled
IngestedDocuments ==
    << Chars("Refunds within 30 days."), Chars("Call us."), Chars("Ships in 5 days."),
       Chars("Free shipping"), Chars("Terms"), Chars("FAQ") >>

\* a report that an earlier run, with top_k = 3, left at output_path
EarlierReport ==
    LET rec == QuestionRecord(ThinRow(9), <<>>, FALLBACK_RESPONSE, 3, 0, 0, 0)
    IN  Report(3,
               Metrics(<<rec>>, <<Zero>>, <<Zero>>, <<Zero>>, <<Zero>>, <<Zero>>, <<Zero>>,
                       <<Zero>>),
               <<rec>>)

\* what a run finds: the ground-truth file, the credential, the collection,
\* the file at output_path
Environments ==
    [exists : BOOLEAN,
     key : BOOLEAN,
     documents : {<<>>, IngestedDocuments},
     output : {None, Some(EarlierReport)}]

\* the ground-truth file is there, the credential is configured, the
\* documents are ingested, no report has been written yet
UsualEnvironment ==
    [exists |-> TRUE, key |-> TRUE, documents |-> IngestedDocuments, output |-> None]

\* the ground-truth files that are evaluated in every environment (the
\* others are evaluated in the usual one)
EnvironmentFiles == {<<>>, <<ThinRow(1), ThinRow(2)>>}

----------------------------------------------------------------------------
(* scripts/evaluate_rag.py: evaluate_and_save *)

EvalOff ==
    /\ ground_truth = <<>>
    /\ top_k = 1
    /\ call_us = 0
    /\ clock = 0
    /\ eval_pc = "off"
    /\ row_idx = 0
    /\ total_start = 0
    /\ retrieval_start = 0
    /\ retrieval_us = 0
    /\ retrieved_chunks = <<>>
    /\ per_question = <<>>
    /\ retrieval_latencies = <<>>
    /\ generation_latencies = <<>>
    /\ total_latencies = <<>>
    /\ reciprocal_ranks = <<>>
    /\ precision_scores = <<>>
    /\ answer_context_overlaps = <<>>
    /\ expected_keyword_coverages = <<>>
    /\ report = None
    /\ calls = <<>>
    /\ ground_truth_exists = FALSE
    /\ openai_api_key = FALSE
    /\ output_before = None
    /\ docs = <<>>
    /\ output_file = None
    /\ output_writes = 0
    /\ seeded = 0
    /\ ingested = 0

ChatOff ==
    /\ rag_service = FALSE
    /\ messages = <<>>
    /\ request = None
    /\ context_chunks = <<>>
    /\ chat_calls = <<>>
    /\ response = None
    /\ requests_made = 0
    /\ chat_pc = "off"

SplitLocalsOff ==
    /\ raw_text = <<>>
    /\ text = <<>>
    /\ chunk_size = 1
    /\ overlap = 0
    /\ start = 0
    /\ chunks = <<>>
    /\ split_result = <<>>
    /\ split_pc = "off"

SplitOff == SplitLocalsOff /\ documents = <<>>

P95Off ==
    /\ p95_values = <<>>
    /\ p95_result = None
    /\ p95_first = None
    /\ p95_swaps = 0
    /\ p95_pc = "off"

GenerateOff ==
    /\ gen_args = None
    /\ gen_sent = <<>>
    /\ gen_content = None
    /\ gen_result = None
    /\ gen_pc = "off"

FuncOff == P95Off /\ GenerateOff

EvalInit ==
    /\ ground_truth \in GroundTruths
    /\ top_k \in IF Len(ground_truth) <= 1 THEN 1..MaxTopK ELSE {DefaultTopK}
    /\ call_us \in {0, MaxCallUs}
    /\ \E env \in IF ground_truth \in EnvironmentFiles /\ top_k = DefaultTopK
                   THEN Environments ELSE {UsualEnvironment} :
          /\ ground_truth_exists = env.exists
          /\ openai_api_key = env.key
          /\ documents = env.documents
          /\ output_before = env.output
          /\ output_file = env.output
    /\ docs = <<>>
    /\ output_writes = 0
    /\ seeded = 0
    /\ ingested = 0
    /\ clock = 0
    /\ eval_pc = "call"
    /\ row_idx = 0
    /\ total_start = 0
    /\ retrieval_start = 0
    /\ retrieval_us = 0
    /\ retrieved_chunks = <<>>
    /\ per_question = <<>>
    /\ retrieval_latencies = <<>>
    /\ generation_latencies = <<>>
    /\ total_latencies = <<>>
    /\ reciprocal_ranks = <<>>
    /\ precision_scores = <<>>
    /\ answer_context_overlaps = <<>>
    /\ expected_keyword_coverages = <<>>
    /\ report = None
    /\ calls = <<>>
    /\ SplitLocalsOff
    /\ ChatOff
    /\ FuncOff

\* rag.py line 21, chroma_store.py lines 252-256: a query is answered with at
\* most rag_top_k entries, and with no more than the collection holds
QueryAnswers(collection) ==
    {e \in QueryResults : Len(e) <= RagTopK /\ Len(e) <= Len(collection)}

\* where the loop of line 72 goes after row i
AfterRow(i) == IF i < Len(ground_truth) THEN "embed" ELSE "finish"

EvalNotFoundAfterSeeding ==
    /\ eval_pc = "call"
    /\ ~ground_truth_exists
    /\ seeded' = seeded + 1
    /\ eval_pc' = "not_found"
    /\ UNCHANGED <<evalArgs, docs, output_file, output_writes, ingested, clock, row_idx,
                   evalRow, evalLists, report, calls, splitVars, chatVars, funcVars>>

\* lines 48-49: the ground-truth file is missing
EvalNotFound ==
    /\ eval_pc = "call"
    /\ ~ground_truth_exists
    /\ eval_pc' = "not_found"
    /\ UNCHANGED <<evalArgs, evalStore, clock, row_idx, evalRow, evalLists, report, calls,
                   splitVars, chatVars, funcVars>>

AlwaysIngest(ids) == TRUE

\* line 54: not (docs.get("ids") or [])
ShouldIngest(ids) == ids = <<>>

\* what ingest_directory leaves in the collection when it returns: nothing
\* when the data directory has no PDF with text
IngestOutcomes == {<<>>, IngestedDocuments}

\* what ingest_directory leaves in the collection when embed_text raises
\* for one of the chunks: the chunks added before it
IngestPrefixes ==
    {SubSeq(IngestedDocuments, 1, n) : n \in 0..(Len(IngestedDocuments) - 1)}

\* lines 51-55: the templates are reseeded; ingest_directory is called when
\* the collection is empty, and returns
EvalBootstrap ==
    /\ eval_pc = "call"
    /\ ground_truth_exists
    /\ seeded' = seeded + 1
    /\ docs' = documents
    /\ IF ShouldIngest(documents)
       THEN /\ openai_api_key
            /\ ingested' = ingested + 1
            /\ documents' \in IngestOutcomes
       ELSE UNCHANGED <<ingested, documents>>
    /\ eval_pc' = "start"
    /\ UNCHANGED <<evalArgs, output_file, output_writes, clock, row_idx, evalRow, evalLists,
                   report, calls, splitLocals, chatVars, funcVars>>

\* lines 51-55: ingest_directory is called and raises, at line 23 when the
\* credential is missing (before clear_documents), at line 37 when
\* embed_text raises
EvalIngestRaises ==
    /\ eval_pc = "call"
    /\ ground_truth_exists
    /\ ShouldIngest(documents)
    /\ seeded' = seeded + 1
    /\ docs' = documents
    /\ ingested' = ingested + 1
    /\ IF openai_api_key
       THEN documents' \in IngestPrefixes /\ eval_pc' = "ingest_raised"
       ELSE documents' = documents /\ eval_pc' = "config_error"
    /\ UNCHANGED <<evalArgs, output_file, output_writes, clock, row_idx, evalRow, evalLists,
                   report, calls, splitLocals, chatVars, funcVars>>

\* line 60: RAGService() raises, the credential is missing
EvalServiceRaises ==
    /\ eval_pc = "start"
    /\ ~openai_api_key
    /\ eval_pc' = "config_error"
    /\ UNCHANGED <<evalArgs, evalStore, clock, row_idx, evalRow, evalLists, report, calls,
                   splitVars, chatVars, funcVars>>

\* lines 57-72: the file is loaded, the lists are empty, the loop starts
EvalStart ==
    /\ eval_pc = "start"
    /\ openai_api_key
    /\ per_question' = <<>>
    /\ retrieval_latencies' = <<>>
    /\ generation_latencies' = <<>>
    /\ total_latencies' = <<>>
    /\ reciprocal_ranks' = <<>>
    /\ precision_scores' = <<>>
    /\ answer_context_overlaps' = <<>>
    /\ expected_keyword_coverages' = <<>>
    /\ row_idx' = 1
    /\ eval_pc' = AfterRow(0)
    /\ UNCHANGED <<evalArgs, clock, evalRow, report, evalStore, calls, splitVars, chatVars,
                   funcVars>>

\* lines 73-80: rag_service.embed_text(question) returns
EvalEmbed ==
    /\ eval_pc = "embed"
    /\ total_start' = clock
    /\ retrieval_start' = clock
    /\ clock' = clock + call_us
    /\ calls' = Append(calls, Call(row_idx, "embed"))
    /\ eval_pc' = "retrieve"
    /\ UNCHANGED <<evalArgs, row_idx, retrieval_us, retrieved_chunks, evalLists, report, evalStore,
                   splitVars, chatVars, funcVars>>

\* line 80: rag_service.embed_text(question) raises; nothing catches it
EvalEmbedRaises ==
    /\ eval_pc = "embed"
    /\ total_start' = clock
    /\ retrieval_start' = clock
    /\ clock' = clock + call_us
    /\ calls' = Append(calls, Call(row_idx, "embed"))
    /\ eval_pc' = "raised"
    /\ UNCHANGED <<evalArgs, row_idx, retrieval_us, retrieved_chunks, evalLists, report, evalStore,
                   splitVars, chatVars, funcVars>>

\* lines 81-82: rag_service.find_relevant_chunks(query_embedding)
EvalRetrieve ==
    /\ eval_pc = "retrieve"
    /\ \E entries \in QueryAnswers(documents) :
          retrieved_chunks' = QueryDocumentChunks(entries)
    /\ clock' = clock + call_us
    /\ retrieval_us' = clock' - retrieval_start
    /\ calls' = Append(calls, Call(row_idx, "retrieve"))
    /\ eval_pc' = "generate"
    /\ UNCHANGED <<evalArgs, row_idx, total_start, retrieval_start, evalLists, report, evalStore,
                   splitVars, chatVars, funcVars>>

AppendRecordFirst(pq, rec) == <<rec>> \o pq

EvalGenerateRaisesAfterWrite ==
    /\ eval_pc = "generate"
    /\ retrieved_chunks # <<>>
    /\ clock' = clock + call_us
    /\ calls' = Append(calls, Call(row_idx, "generate"))
    /\ output_file' = None
    /\ eval_pc' = "raised"
    /\ UNCHANGED <<evalArgs, docs, output_writes, seeded, ingested, row_idx, evalRow,
                   evalLists, report, splitVars, chatVars, funcVars>>

\* lines 142-165: per_question.append(...)
AppendRecord(pq, rec) == Append(pq, rec)

\* lines 111-165: the row is scored with `answer`, obtained at time `now`
\* after a generation that began at time `generation_start`
ScoreRow(answer, generation_start, now) ==
    LET row == ground_truth[row_idx]
        g_us == now - generation_start
        t_us == now - total_start
        unique_sources == UniqueSources(retrieved_chunks)
        expected_source == ExpectedSource(row)
        answer_tokens == Tokenize(answer)
    IN  /\ retrieval_latencies' = Append(retrieval_latencies, Ms(retrieval_us))
        /\ generation_latencies' = Append(generation_latencies, Ms(g_us))
        /\ total_latencies' = Append(total_latencies, Ms(t_us))
        /\ reciprocal_ranks' =
              Append(reciprocal_ranks, ReciprocalRank(Rank(unique_sources, expected_source, top_k)))
        /\ precision_scores' =
              Append(precision_scores, PrecisionAtK(unique_sources, expected_source, top_k))
        /\ answer_context_overlaps' =
              Append(answer_context_overlaps,
                     AnswerContextOverlap(answer_tokens, Tokenize(ContextText(retrieved_chunks))))
        /\ expected_keyword_coverages' =
              Append(expected_keyword_coverages,
                     ExpectedKeywordCoverage(answer_tokens, ExpectedTokens(ExpectedKeywords(row))))
        /\ per_question' =
              AppendRecord(per_question,
                           QuestionRecord(row, retrieved_chunks, answer, top_k,
                                          retrieval_us, g_us, t_us))
        /\ row_idx' = row_idx + 1
        /\ eval_pc' = AfterRow(row_idx)

\* lines 84-165 when nothing was retrieved: line 103, no provider call
EvalFallback ==
    /\ eval_pc = "generate"
    /\ retrieved_chunks = <<>>
    /\ ScoreRow(FALLBACK_RESPONSE, clock, clock)
    /\ UNCHANGED <<evalArgs, clock, evalRow, report, evalStore, calls, splitVars, chatVars,
                   funcVars>>

\* lines 84-165 when chunks were retrieved: rag_service.generate_answer(...)
\* returns
EvalGenerate ==
    /\ eval_pc = "generate"
    /\ retrieved_chunks # <<>>
    /\ clock' = clock + call_us
    /\ calls' = Append(calls, Call(row_idx, "generate"))
    /\ \E content \in Completions : ScoreRow(GenerateAnswer(content), clock, clock')
    /\ UNCHANGED <<evalArgs, evalRow, report, evalStore, splitVars, chatVars, funcVars>>

\* line 105: rag_service.generate_answer(...) raises; nothing catches it
EvalGenerateRaises ==
    /\ eval_pc = "generate"
    /\ retrieved_chunks # <<>>
    /\ clock' = clock + call_us
    /\ calls' = Append(calls, Call(row_idx, "generate"))
    /\ eval_pc' = "raised"
    /\ UNCHANGED <<evalArgs, row_idx, evalRow, evalLists, report, evalStore, splitVars,
                   chatVars, funcVars>>

MergeReport(old, rep) ==
    IF old = None THEN Some(rep)
    ELSE Some([rep EXCEPT !.per_question = Get(old).per_question \o @])

\* lines 223-225: the file is opened with mode "w", which empties it, and the
\* report is dumped into it; the file is modelled by the document that
\* json.load reads back from it (the report holds only dicts with string
\* keys, lists, strings, ints, floats and None, which json.dump writes and
\* json.load restores as they are)
WriteReport(old, rep) == Some(rep)

\* lines 167-227: the metrics, the report, the file
EvalFinish ==
    /\ eval_pc = "finish"
    /\ report' = Some(Report(top_k,
                             Metrics(per_question, retrieval_latencies,
                                     generation_latencies, total_latencies,
                                     reciprocal_ranks, precision_scores,
                                     answer_context_overlaps, expected_keyword_coverages),
                             per_question))
    /\ output_file' = WriteReport(output_file, Get(report'))
    /\ output_writes' = output_writes + 1
    /\ eval_pc' = "done"
    /\ UNCHANGED <<evalArgs, docs, seeded, ingested, clock, row_idx, evalRow, evalLists, calls,
                   splitVars, chatVars, funcVars>>

EvalNext ==
    \/ EvalNotFound
    \/ EvalBootstrap
    \/ EvalIngestRaises
    \/ EvalServiceRaises
    \/ EvalStart
    \/ EvalEmbed
    \/ EvalEmbedRaises
    \/ EvalRetrieve
    \/ EvalFallback
    \/ EvalGenerate
    \/ EvalGenerateRaises
    \/ EvalFinish

----------------------------------------------------------------------------
(* app/main.py: send_message *)

\* the characters of the source paths, in code-point order
CodePoints ==
    Chars(" -./0123456789ABCDEFGHIJKLMNOPQRSTUVWXYZ_abcdefghijklmnopqrstuvwxyz")

Ord(c) == CHOOSE i \in 1..Len(CodePoints) : CodePoints[i] = c

\* a < b for two strings
RECURSIVE StrLess(_, _)
StrLess(a, b) ==
    IF b = <<>> THEN FALSE
    ELSE IF a = <<>> THEN TRUE
    ELSE IF Head(a) = Head(b) THEN StrLess(Tail(a), Tail(b))
    ELSE Ord(Head(a)) < Ord(Head(b))

\* sorted(S) for a set of strings
RECURSIVE SortedSet(_)
SortedSet(S) ==
    IF S = {} THEN <<>>
    ELSE LET least == CHOOSE x \in S : \A y \in S \ {x} : StrLess(x, y)
         IN  <<least>> \o SortedSet(S \ {least})

\* line 150
NoContextReply == Chars("I can only answer from the provided PDF documents.")

\* the JSON bodies and sessions of the requests
Requests ==
    [authenticated : BOOLEAN,
     message : {None, Some(Chars("  ")), Some(Chars(" Refund window? "))},
     chat : {"own", "other", "missing"}]

\* line 129
UserMessage(req) == Strip(OrEmpty(req.message))

\* lines 127-140: the status the request is rejected with, 200 when it is not
Status(req) ==
    IF ~req.authenticated THEN 401
    ELSE IF UserMessage(req) = <<>> THEN 400
    ELSE IF ~rag_service THEN 500
    ELSE IF req.chat # "own" THEN 404
    ELSE 200

\* chroma_store.py lines 204-214: the stored payload (ids and times left out)
Message(role, content, sources) == [role |-> role, content |-> content, sources |-> sources]

ChatInit ==
    /\ rag_service \in BOOLEAN
    /\ messages = <<>>
    /\ request = None
    /\ context_chunks = <<>>
    /\ chat_calls = <<>>
    /\ response = None
    /\ requests_made = 0
    /\ chat_pc = "idle"
    /\ documents = IngestedDocuments
    /\ EvalOff
    /\ SplitLocalsOff
    /\ FuncOff

\* lines 127-140: a request that is rejected
SendMessageRejected ==
    /\ chat_pc = "idle"
    /\ requests_made < MaxRequests
    /\ \E req \in Requests :
          /\ Status(req) # 200
          /\ response' = Some([status |-> Status(req)])
    /\ requests_made' = requests_made + 1
    /\ UNCHANGED <<rag_service, messages, request, context_chunks, chat_calls, chat_pc,
                   evalVars, splitVars, funcVars>>

\* lines 127-147: the user message is stored, rag_service.embed_text returns
SendMessageEmbed ==
    /\ chat_pc = "idle"
    /\ requests_made < MaxRequests
    /\ \E req \in Requests :
          /\ Status(req) = 200
          /\ request' = Some(req)
          /\ messages' = Append(messages, Message("user", UserMessage(req), <<>>))
    /\ requests_made' = requests_made + 1
    /\ context_chunks' = <<>>
    /\ chat_calls' = <<"embed">>
    /\ chat_pc' = "retrieve"
    /\ UNCHANGED <<rag_service, response, evalVars, splitVars, funcVars>>

\* lines 127-147: the user message is stored, rag_service.embed_text raises
SendMessageEmbedRaises ==
    /\ chat_pc = "idle"
    /\ requests_made < MaxRequests
    /\ \E req \in Requests :
          /\ Status(req) = 200
          /\ messages' = Append(messages, Message("user", UserMessage(req), <<>>))
    /\ requests_made' = requests_made + 1
    /\ response' = Some([status |-> 500])
    /\ UNCHANGED <<rag_service, request, context_chunks, chat_calls, chat_pc, evalVars,
                   splitVars, funcVars>>

\* line 148
SendMessageRetrieve ==
    /\ chat_pc = "retrieve"
    /\ \E entries \in QueryAnswers(documents) :
          context_chunks' = QueryDocumentChunks(entries)
    /\ chat_calls' = Append(chat_calls, "retrieve")
    /\ chat_pc' = "generate"
    /\ UNCHANGED <<rag_service, messages, request, response, requests_made, evalVars,
                   splitVars, funcVars>>

\* line 159
Sources(cs) == SortedSet(Range(RetrievedSources(cs)))

\* lines 159-176: the assistant message is stored and sent
Reply(assistant_text) ==
    /\ messages' = Append(messages, Message("assistant", assistant_text, Sources(context_chunks)))
    /\ response' = Some([status |-> 200,
                         user_message |-> UserMessage(Get(request)),
                         assistant_text |-> assistant_text,
                         sources |-> Sources(context_chunks)])
    /\ request' = None
    /\ chat_pc' = "idle"

\* lines 149-150, 159-176: nothing was retrieved
SendMessageFallback ==
    /\ chat_pc = "generate"
    /\ context_chunks = <<>>
    /\ Reply(NoContextReply)
    /\ UNCHANGED <<rag_service, context_chunks, chat_calls, requests_made, evalVars,
                   splitVars, funcVars>>

\* lines 151-176: rag_service.generate_answer returns
SendMessageGenerate ==
    /\ chat_pc = "generate"
    /\ context_chunks # <<>>
    /\ chat_calls' = Append(chat_calls, "generate")
    /\ \E content \in Completions : Reply(GenerateAnswer(content))
    /\ UNCHANGED <<rag_service, context_chunks, requests_made, evalVars, splitVars, funcVars>>

\* line 152: rag_service.generate_answer raises
SendMessageGenerateRaises ==
    /\ chat_pc = "generate"
    /\ context_chunks # <<>>
    /\ chat_calls' = Append(chat_calls, "generate")
    /\ response' = Some([status |-> 500])
    /\ request' = None
    /\ chat_pc' = "idle"
    /\ UNCHANGED <<rag_service, messages, context_chunks, requests_made, evalVars,
                   splitVars, funcVars>>

ChatNext ==
    \/ SendMessageRejected
    \/ SendMessageEmbed
    \/ SendMessageEmbedRaises
    \/ SendMessageRetrieve
    \/ SendMessageFallback
    \/ SendMessageGenerate
    \/ SendMessageGenerateRaises

\* one of the two programs runs: the evaluation script or the web application
Init == EvalInit \/ ChatInit

Next == EvalNext \/ ChatNext

Spec == Init /\ [][Next]_vars

----------------------------------------------------------------------------
(* scripts/ingest_data.py: split_text *)

\* the characters the texts of the model are made of
TextAlphabet == {"a", "b", " "}

\* the loop is cut off after this many windows: a terminating run never
\* repeats a value of `start`, so it appends at most Len(text) windows
MaxChunks == MaxLen + 2

\* line 14
WindowEnd(s, size, len) == Min(s + size, len)

NextStartNoOverlap(e, ov) == e

\* line 18
NextStart(e, ov) == Max(0, e - ov)

KeepAll(cs) == cs

\* line 19: [chunk for chunk in chunks if chunk.strip()]
RECURSIVE KeepNonBlank(_)
KeepNonBlank(cs) ==
    IF cs = <<>> THEN <<>>
    ELSE IF Strip(Head(cs)) # <<>> THEN <<Head(cs)>> \o KeepNonBlank(Tail(cs))
    ELSE KeepNonBlank(Tail(cs))

SplitInit ==
    /\ raw_text \in SeqsUpTo(TextAlphabet, MaxLen)
    /\ chunk_size \in 1..MaxChunkSize
    /\ overlap \in 0..MaxOverlap
    /\ text = <<>>
    /\ start = 0
    /\ chunks = <<>>
    /\ split_result = <<>>
    /\ split_pc = "call"
    /\ documents = <<>>
    /\ EvalOff
    /\ ChatOff
    /\ FuncOff

\* lines 10-12
SplitCall ==
    /\ split_pc = "call"
    /\ chunks' = <<>>
    /\ start' = 0
    /\ text' = Strip(raw_text)
    /\ split_pc' = "loop"
    /\ UNCHANGED <<raw_text, chunk_size, overlap, split_result, documents, evalVars, chatVars, funcVars>>

\* lines 13-18: one pass of the while loop
SplitLoop ==
    /\ split_pc = "loop"
    /\ start < Len(text)
    /\ Len(chunks) < MaxChunks
    /\ LET end == WindowEnd(start, chunk_size, Len(text)) IN
        /\ chunks' = Append(chunks, Slice(text, start, end))
        /\ IF end = Len(text)
           THEN split_pc' = "filter" /\ start' = start
           ELSE split_pc' = "loop" /\ start' = NextStart(end, overlap)
    /\ UNCHANGED <<raw_text, text, chunk_size, overlap, split_result, documents, evalVars, chatVars, funcVars>>

\* line 13: the loop condition is false
SplitLoopExit ==
    /\ split_pc = "loop"
    /\ ~(start < Len(text))
    /\ split_pc' = "filter"
    /\ UNCHANGED <<raw_text, text, chunk_size, overlap, start, chunks, split_result,
                   documents, evalVars, chatVars, funcVars>>

\* line 19
SplitReturn ==
    /\ split_pc = "filter"
    /\ split_result' = KeepNonBlank(chunks)
    /\ split_pc' = "returned"
    /\ UNCHANGED <<raw_text, text, chunk_size, overlap, start, chunks, documents,
                   evalVars, chatVars, funcVars>>

\* ingest_directory, lines 36-43: the chunks split_text returned are added to
\* the document collection one by one, in order
AddDocumentChunk ==
    /\ split_pc = "returned"
    /\ Len(documents) < Len(split_result)
    /\ documents' = Append(documents, split_result[Len(documents) + 1])
    /\ UNCHANGED <<raw_text, text, chunk_size, overlap, start, chunks, split_result,
                   split_pc, evalVars, chatVars, funcVars>>

SplitNext ==
    \/ SplitCall
    \/ SplitLoop
    \/ SplitLoopExit
    \/ SplitReturn
    \/ AddDocumentChunk

\* the interpreter keeps executing a started call
SplitSpec == SplitInit /\ [][SplitNext]_vars /\ WF_vars(SplitNext)

----------------------------------------------------------------------------
(* app/rag.py: RAGService.generate_answer, called on its own *)

\* longest history handed to generate_answer
MaxHistory == 3

\* line 31: f"Source: {chunk['source']}\n{chunk['chunk_text']}"
ContextBlock(chunk) == Chars("Source: ") \o chunk.source \o <<"\n">> \o chunk.chunk_text

\* lines 30-32
Context(cs) == Join(<<"\n", "\n">>, [i \in 1..Len(cs) |-> ContextBlock(cs[i])])

\* lines 33-38
BasePrompt ==
    Chars("You are a professional call-center support chatbot. ")
        \o Chars("You must answer strictly and only from the provided PDF context snippets. ")
        \o Chars("If the answer is missing in context, reply exactly: ")
        \o Chars("'I can only answer from the provided PDF documents.'")

\* lines 33-40: the template is appended when it is neither None nor ""
SystemPrompt(prompt_template) ==
    IF Truthy(prompt_template)
    THEN BasePrompt \o Chars("\n\nPrompt template:\n") \o Get(prompt_template)
    ELSE BasePrompt

ChatMessage(role, content) == [role |-> role, content |-> content]

NoHistoryMessages(history) == <<>>

\* lines 43-44
HistoryMessages(history) ==
    [i \in 1..Len(history) |-> ChatMessage(history[i].role, history[i].content)]

\* lines 46-57
FinalUserMessage(user_message, cs) ==
    ChatMessage("user",
        Chars("Context:\n")
            \o (IF Context(cs) # <<>> THEN Context(cs) ELSE Chars("No relevant context found."))
            \o Chars("\n\n")
            \o Chars("Important: answer only from context sourced from PDF documents.\n\n")
            \o Chars("Customer question:\n")
            \o user_message)

\* lines 42-57: the messages of the request
ChatMessages(args) ==
    <<ChatMessage("system", SystemPrompt(args.prompt_template))>>
        \o HistoryMessages(args.history)
        \o <<FinalUserMessage(args.user_message, args.context_chunks)>>

\* lines 59-63: the request to the provider (the temperature 0.2 in tenths)
CompletionRequest(args) == [messages |-> ChatMessages(args), temperature_tenths |-> 2]

\* the histories: stored messages, oldest first, each with the keys role and
\* content
Histories ==
    SeqsUpTo({ChatMessage("user", Chars("Hi")), ChatMessage("assistant", Chars("Hello."))},
             MaxHistory)

\* no template, an empty one, a persona
PromptTemplates == {None, Some(<<>>), Some(Chars("Be empathetic."))}

\* the content of the provider's response: Completions, and the empty string
ResponseContents == Completions \cup {Some(<<>>)}

GenerateInit ==
    /\ gen_args \in
          {Some([user_message |-> Strip(Get(TheQuestion)),
                 context_chunks |-> QueryDocumentChunks(e),
                 history |-> h,
                 prompt_template |-> t]) :
              e \in QueryResults, h \in Histories, t \in PromptTemplates}
    /\ gen_sent = <<>>
    /\ gen_content = None
    /\ gen_result = None
    /\ gen_pc = "call"
    /\ P95Off
    /\ EvalOff
    /\ ChatOff
    /\ SplitOff

\* lines 30-63: the messages are built and sent to the provider
GenerateAnswerSend ==
    /\ gen_pc = "call"
    /\ gen_sent' = Append(gen_sent, CompletionRequest(Get(gen_args)))
    /\ gen_pc' = "sent"
    /\ UNCHANGED <<gen_args, gen_content, gen_result, p95Vars, splitVars, evalVars, chatVars>>

\* line 64: the provider answers
GenerateAnswerReturn ==
    /\ gen_pc = "sent"
    /\ \E content \in ResponseContents :
          /\ gen_content' = Some(content)
          /\ gen_result' = Some(GenerateAnswer(content))
    /\ gen_pc' = "returned"
    /\ UNCHANGED <<gen_args, gen_sent, p95Vars, splitVars, evalVars, chatVars>>

\* line 59: the provider call raises
GenerateAnswerRaises ==
    /\ gen_pc = "sent"
    /\ gen_pc' = "raised"
    /\ UNCHANGED <<gen_args, gen_sent, gen_content, gen_result, p95Vars, splitVars, evalVars,
                   chatVars>>

GenerateNext ==
    \/ GenerateAnswerSend
    \/ GenerateAnswerReturn
    \/ GenerateAnswerRaises

GenerateSpec == GenerateInit /\ [][GenerateNext]_vars

----------------------------------------------------------------------------
(* scripts/evaluate_rag.py: _p95, called on its own *)

\* longest list of values, apart from the list 1..20
MaxValues == 4
\* the values are drawn from 1..MaxValue
MaxValue == 3
\* how often the caller reorders a list and calls again
MaxSwaps == 2

\* the values 1, 2, ..., 20
OneToTwenty == [i \in 1..20 |-> i]

\* the lists handed to _p95
P95Inputs ==
    {Floats(ns) : ns \in SeqsUpTo(1..MaxValue, MaxValues)} \cup {Floats(OneToTwenty)}

\* xs with the items at positions i and i + 1 exchanged
SwapAt(xs, i) ==
    [j \in 1..Len(xs) |-> IF j = i THEN xs[i + 1] ELSE IF j = i + 1 THEN xs[i] ELSE xs[j]]

P95Init ==
    /\ p95_values \in P95Inputs
    /\ p95_result = None
    /\ p95_first = None
    /\ p95_swaps = 0
    /\ p95_pc = "call"
    /\ GenerateOff
    /\ EvalOff
    /\ ChatOff
    /\ SplitOff

\* lines 24-29
P95Call ==
    /\ p95_pc = "call"
    /\ p95_result' = Some(P95(p95_values))
    /\ p95_first' = IF p95_first = None THEN p95_result' ELSE p95_first
    /\ p95_pc' = "returned"
    /\ UNCHANGED <<p95_values, p95_swaps, genVars, splitVars, evalVars, chatVars>>

\* the caller hands over the same values in another order
P95Reorder ==
    /\ p95_pc = "returned"
    /\ p95_swaps < MaxSwaps
    /\ \E i \in 1..(Len(p95_values) - 1) : p95_values' = SwapAt(p95_values, i)
    /\ p95_swaps' = p95_swaps + 1
    /\ p95_pc' = "call"
    /\ UNCHANGED <<p95_result, p95_first, genVars, splitVars, evalVars, chatVars>>

P95Next ==
    \/ P95Call
    \/ P95Reorder

P95Spec == P95Init /\ [][P95Next]_vars

----------------------------------------------------------------------------
(* Claims about split_text *)

\* C1: split_text terminates for every text and every pair (chunk_size,
\* overlap), overlap >= chunk_size included: the loop reaches the end of the
\* text after finitely many passes.  What a pass does is decided by `start`
\* alone, and a pass is made only with start in 0..Len(text)-1, so a call
\* that terminates makes at most Len(text) passes (one window each): a call
\* that has made more has repeated a value of `start` and repeats it for ever.
C1_SplitTerminates == Len(chunks) <= Len(text)

DropFirst(s, n) == SubSeq(s, n + 1, Len(s))
LastChars(s, n) == SubSeq(s, Len(s) - n + 1, Len(s))

\* the first chunk followed by every later chunk without its first ov characters
RECURSIVE JoinLater(_, _)
JoinLater(cs, ov) ==
    IF cs = <<>> THEN <<>> ELSE DropFirst(Head(cs), ov) \o JoinLater(Tail(cs), ov)

JoinWithOverlap(cs, ov) ==
    IF cs = <<>> THEN <<>> ELSE Head(cs) \o JoinLater(Tail(cs), ov)

Reconstructs(cs, ov, t) ==
    /\ \A i \in 2..Len(cs) :
          /\ Len(cs[i]) >= ov
          /\ Len(cs[i - 1]) >= ov
          /\ SubSeq(cs[i], 1, ov) = LastChars(cs[i - 1], ov)
    /\ JoinWithOverlap(cs, ov) = t

SplitReturned == split_pc = "returned"

\* C3 as claimed: for every text that is non-blank after trimming and every
\* 0 <= overlap < chunk_size, the returned chunks reconstruct the trimmed
\* text (each later chunk starts with the last `overlap` characters of the
\* chunk before it, and the overlap-free concatenation is the trimmed text).
C3_ReturnedChunksReconstruct ==
    (SplitReturned /\ Strip(raw_text) # <<>> /\ overlap < chunk_size)
        => Reconstructs(split_result, overlap, Strip(raw_text))

\* C3 as amended: the same, for the calls in which no window is
\* whitespace-only, so that the final filter of line 19 drops nothing.
C3_ReconstructWhenNoBlankWindow ==
    (/\ SplitReturned
     /\ Strip(raw_text) # <<>>
     /\ overlap < chunk_size
     /\ \A i \in 1..Len(chunks) : Strip(chunks[i]) # <<>>)
        => Reconstructs(split_result, overlap, Strip(raw_text))

\* a call with 0 < overlap < chunk_size that returned three overlapping chunks
C3_Witness ==
    /\ SplitReturned
    /\ 0 < overlap
    /\ overlap < chunk_size
    /\ Len(split_result) >= 3
    /\ Len(split_result) = Len(chunks)
    /\ \E i \in 1..Len(text) : text[i] = " "

\* C4: every returned chunk is non-blank after trimming and at most
\* chunk_size long; a blank input returns the empty list; every chunk that
\* ingestion stored is non-blank.
C4_ChunksNonBlankAndBounded ==
    /\ SplitReturned =>
          /\ \A i \in 1..Len(split_result) :
                /\ Strip(split_result[i]) # <<>>
                /\ Len(split_result[i]) <= chunk_size
          /\ (Strip(raw_text) = <<>> => split_result = <<>>)
    /\ \A i \in 1..Len(documents) : Strip(documents[i]) # <<>>

\* a call whose loop produced a whitespace-only window, dropped from the
\* result, and whose remaining chunks were all stored
C4_Witness ==
    /\ SplitReturned
    /\ Len(split_result) < Len(chunks)
    /\ split_result # <<>>
    /\ Len(documents) = Len(split_result)

----------------------------------------------------------------------------
(* Claims about evaluate_and_save and send_message *)

\* the rows scored so far
Scored == 1..Len(per_question)

\* the chunks in retrieved_chunks are those of the row scored last
LastScored ==
    /\ per_question # <<>>
    /\ eval_pc \in {"embed", "retrieve", "finish", "done"}

\* C2: a provider failure in one case does not abort the run, which goes on
\* to the later cases and reports all N: no run is stopped by a provider
\* exception while cases are still unprocessed.
C2_FailureDoesNotAbortRun == ~(eval_pc = "raised" /\ row_idx < Len(ground_truth))

\* the refusal, as the claim words it
RefusalText == Chars("I can only answer from the provided PDF documents.")

\* a request of send_message has just been answered
Answered == chat_pc = "idle" /\ response # None /\ Get(response).status = 200

\* C5: when retrieval returns no chunk, the generation provider is not
\* called, the answer is the fixed refusal and the sources are empty; the
\* evaluation record has is_refusal = 1 and is_grounded = 0.
C5_NoChunksNoGeneration ==
    /\ \A i \in Scored :
          per_question[i].context_chars = 0 /\ per_question[i].retrieved_sources = <<>> =>
              /\ Call(i, "generate") \notin Range(calls)
              /\ per_question[i].answer = RefusalText
              /\ per_question[i].is_refusal = 1
              /\ per_question[i].is_grounded = 0
    /\ (Answered /\ context_chunks = <<>>) =>
          /\ "generate" \notin Range(chat_calls)
          /\ Get(response).assistant_text = RefusalText
          /\ Get(response).sources = <<>>
          /\ messages[Len(messages)] = Message("assistant", RefusalText, <<>>)

\* a finished run in which a row retrieved nothing
C5_Witness ==
    /\ eval_pc = "done"
    /\ \E i \in Scored :
          /\ per_question[i].retrieved_sources = <<>>
          /\ per_question[i].is_refusal = 1
          /\ Call(i, "retrieve") \in Range(calls)

\* the 1-indexed position of source x among the distinct sources of the
\* chunks cs, in order of first occurrence
PositionOf(x, cs) ==
    LET srcs == RetrievedSources(cs)
        first == CHOOSE j \in 1..Len(srcs) : srcs[j] = x /\ \A m \in 1..(j - 1) : srcs[m] # x
    IN  Cardinality({srcs[m] : m \in 1..first})

Flag(b) == IF b THEN 1 ELSE 0

\* C6: for a non-empty expected_source at position p of the de-duplicated
\* retrieved sources, hit_at_k = 1 exactly when p <= k (k = 1, 3, 4);
\* source_rank = p and reciprocal_rank = 1/p exactly when p <= top_k,
\* otherwise source_rank is null and reciprocal_rank is 0.0.
C6_HitsAndRankFollowPosition ==
    LastScored =>
        LET i == Len(per_question)
            r == per_question[i]
            e == ExpectedSource(ground_truth[i])
        IN  (e # None /\ Get(e) # <<>> /\ Get(e) \in Range(RetrievedSources(retrieved_chunks))) =>
                LET p == PositionOf(Get(e), retrieved_chunks) IN
                /\ r.hit_at_1 = Flag(p <= 1)
                /\ r.hit_at_3 = Flag(p <= 3)
                /\ r.hit_at_4 = Flag(p <= 4)
                /\ IF p <= top_k
                   THEN r.source_rank = Some(p) /\ reciprocal_ranks[i] = Rat(1, p)
                   ELSE r.source_rank = None /\ reciprocal_ranks[i] = Zero

\* the claim's example: p = 2 and top_k = 4
C6_Witness ==
    /\ LastScored
    /\ top_k = 4
    /\ LET r == per_question[Len(per_question)] IN
          /\ r.hit_at_1 = 0
          /\ r.hit_at_3 = 1
          /\ r.hit_at_4 = 1
          /\ r.source_rank = Some(2)
          /\ reciprocal_ranks[Len(per_question)] = Rat(1, 2)
          /\ Len(retrieved_chunks) = 2

\* C7: with no expected_source (missing, null or empty) nothing matches:
\* the three hit flags are 0, source_rank is null, reciprocal_rank and the
\* per-question precision are 0.0.
C7_NoExpectedSourceNoMatch ==
    \A i \in Scored :
        LET row == ground_truth[i]
            r == per_question[i]
        IN  ("expected_source" \notin DOMAIN row
                \/ row["expected_source"] = None
                \/ row["expected_source"] = Some(<<>>)) =>
                /\ r.hit_at_1 = 0
                /\ r.hit_at_3 = 0
                /\ r.hit_at_4 = 0
                /\ r.source_rank = None
                /\ reciprocal_ranks[i] = Zero
                /\ precision_scores[i] = Zero

\* a row without the expected_source key, scored against four chunks
C7_Witness ==
    /\ LastScored
    /\ "expected_source" \notin DOMAIN ground_truth[Len(per_question)]
    /\ Len(retrieved_chunks) = 4
    /\ per_question[Len(per_question)].top_source # None

\* the tokens of every keyword of a list
KeywordTokens(keywords) == UNION {Tokenize(keywords[j]) : j \in 1..Len(keywords)}

\* C8: expected_keyword_coverage is |A \cap E| / |E| for A the tokens of the
\* answer and E the tokens of the expected keywords (a multi-word or
\* punctuated keyword counts by its tokens), 0 when E is empty, and lies in
\* [0, 1].
C8_CoverageOverKeywordTokens ==
    \A i \in Scored :
        LET row == ground_truth[i]
            A == Tokenize(per_question[i].answer)
            E == KeywordTokens(IF "expected_answer_keywords" \in DOMAIN row
                               THEN row["expected_answer_keywords"] ELSE <<>>)
            coverage == expected_keyword_coverages[i]
        IN  /\ coverage = IF E = {} THEN Zero ELSE Rat(Cardinality(A \cap E), Cardinality(E))
            /\ RatLE(Zero, coverage)
            /\ RatLE(coverage, One)

\* the calls are made row after row, and embed, retrieve, generate in a row
CallRank(name) == CASE name = "embed" -> 1 [] name = "retrieve" -> 2 [] name = "generate" -> 3

\* C9: the cases are processed one after another in input order (every call
\* of case i is made before any call of case i+1), and the finished report
\* holds one record per case, in the ground-truth order, with
\* eval_total_questions the number of cases.
C9_SequentialInOrder ==
    /\ \A j \in 1..(Len(calls) - 1) :
          \/ calls[j].case < calls[j + 1].case
          \/ /\ calls[j].case = calls[j + 1].case
             /\ CallRank(calls[j].name) < CallRank(calls[j + 1].name)
    /\ \A j \in 1..Len(calls) : calls[j].case <= Len(per_question) + 1
    /\ \A i \in Scored : \E j \in 1..Len(calls) : calls[j] = Call(i, "retrieve")
    /\ eval_pc = "done" =>
          LET rep == Get(report) IN
          /\ Len(rep.per_question) = Len(ground_truth)
          /\ \A i \in 1..Len(ground_truth) :
                /\ rep.per_question[i].id = DictGet(ground_truth[i], "id")
                /\ \E j \in 1..Len(calls) : calls[j] = Call(i, "embed")
          /\ rep.metrics[1].metric_key = "eval_total_questions"
          /\ rep.metrics[1].metric_value = Float(Len(ground_truth))

\* a finished run over two rows, the second of which called the provider
C9_Witness ==
    /\ eval_pc = "done"
    /\ Len(ground_truth) = 2
    /\ Call(1, "generate") \in Range(calls)
    /\ Call(2, "generate") \in Range(calls)

\* the metric keys, in the order of the report
MetricKeys ==
    << "eval_total_questions", "eval_hit_rate_at_1", "eval_hit_rate_at_3",
       "eval_hit_rate_at_4", "eval_mrr_at_4", "eval_exact_source_match_rate",
       "eval_source_precision_at_4", "eval_source_recall_at_4",
       "eval_avg_retrieval_latency_ms", "eval_p95_retrieval_latency_ms",
       "eval_avg_generation_latency_ms", "eval_p95_generation_latency_ms",
       "eval_avg_total_latency_ms", "eval_answer_non_empty_rate", "eval_refusal_rate",
       "eval_grounded_answer_rate", "eval_avg_answer_context_overlap",
       "eval_avg_expected_keyword_coverage", "eval_avg_context_chars",
       "eval_avg_answer_chars" >>

\* C10: a completed run emits exactly 20 metrics, with pairwise distinct
\* keys in one fixed order, total_metrics = 20, every unit among count, ratio
\* and ms and every category among overview, retrieval, latency, generation
\* and context; for an empty ground-truth list every metric_value is 0.0.
C10_TwentyMetrics ==
    eval_pc = "done" =>
        LET rep == Get(report) IN
        /\ Len(rep.metrics) = 20
        /\ rep.total_metrics = 20
        /\ \A a, b \in 1..Len(rep.metrics) :
              a # b => rep.metrics[a].metric_key # rep.metrics[b].metric_key
        /\ [a \in 1..Len(rep.metrics) |-> rep.metrics[a].metric_key] = MetricKeys
        /\ \A a \in 1..Len(rep.metrics) :
              /\ rep.metrics[a].unit \in {"count", "ratio", "ms"}
              /\ rep.metrics[a].category \in
                    {"overview", "retrieval", "latency", "generation", "context"}
        /\ ground_truth = <<>> =>
              \A a \in 1..Len(rep.metrics) : rep.metrics[a].metric_value = Zero

\* a completed run over the empty ground-truth list
C10_Witness == eval_pc = "done" /\ ground_truth = <<>> /\ report # None

\* the metric of a report with the given key
MetricValue(rep, key) ==
    LET a == CHOOSE b \in 1..Len(rep.metrics) : rep.metrics[b].metric_key = key
    IN  rep.metrics[a].metric_value

\* source_rank and the three hit flags of a record say the same thing
RankAgreesWithHits(r) ==
    /\ (r.source_rank = Some(1)) <=> (r.hit_at_1 = 1)
    /\ (r.source_rank # None /\ Get(r.source_rank) <= 3) <=> (r.hit_at_3 = 1)
    /\ (r.source_rank # None) <=> (r.hit_at_4 = 1)

C17_RetrievedAtMostTopK ==
    /\ eval_pc \in {"generate", "embed", "finish", "done"} => Len(retrieved_chunks) <= top_k
    /\ \A i \in Scored : Len(per_question[i].retrieved_sources) <= top_k

\* C19: a send_message request that does not end with an assistant reply
\* (rejected with 401, 400, 500 or 404, or failed in the embedding or the
\* generation call) leaves the stored messages unchanged, so between
\* requests every stored user message is followed by an assistant message.
C19_NoReplyNoStoredMessage ==
    chat_pc = "idle" =>
        \A i \in 1..Len(messages) :
            messages[i].role = "user" =>
                i < Len(messages) /\ messages[i + 1].role = "assistant"

----------------------------------------------------------------------------
(* Claims about _p95 *)

\* the least integer that is at least 0.95 * n
CeilOf95Percent(n) == CHOOSE m \in 0..n : 100 * m >= 95 * n /\ 100 * (m - 1) < 95 * n

\* how many of the values are below x, and how many are x or below
CountBelow(xs, x) == Cardinality({i \in 1..Len(xs) : RatLE(xs[i], x) /\ xs[i] # x})
CountUpTo(xs, x) == Cardinality({i \in 1..Len(xs) : RatLE(xs[i], x)})

\* C11: _p95 returns 0.0 for an empty list and otherwise the element at
\* index ceil(0.95 * n) - 1, clamped to [0, n-1], of the ascending sort of
\* the n values (the value with at most `index` values below it and more than
\* `index` values up to it): the result is one of the values, does not
\* depend on their order, and is 19 for the values 1..20.
C11_P95IsTheOrderStatistic ==
    p95_pc = "returned" =>
        LET n == Len(p95_values)
            r == Get(p95_result)
            index == Max(0, Min(n - 1, CeilOf95Percent(n) - 1))
        IN  /\ p95_result # None
            /\ n = 0 => r = Zero
            /\ n > 0 =>
                  /\ r \in Range(p95_values)
                  /\ CountBelow(p95_values, r) <= index
                  /\ CountUpTo(p95_values, r) >= index + 1
            /\ p95_result = p95_first
            /\ Range(p95_values) = Range(Floats(OneToTwenty)) /\ n = 20 => r = Float(19)

\* the values 1..20, reordered so that 20 is no longer last, give 19 again
C11_Witness ==
    /\ p95_pc = "returned"
    /\ Len(p95_values) = 20
    /\ p95_swaps > 0
    /\ p95_values[20] # Float(20)
    /\ p95_result = Some(Float(19))

----------------------------------------------------------------------------
(* Claims about generate_answer *)

\* s ends with t
EndsWith(s, t) == Len(s) >= Len(t) /\ SubSeq(s, Len(s) - Len(t) + 1, Len(s)) = t

\* C15: generate_answer calls the generation provider exactly once, with
\* len(history) + 2 messages: the system instruction, the history messages
\* in the order given, and one final user message that carries every context
\* block under its source label and the question; it returns the provider's
\* text, or "I could not generate a response." when the content is empty,
\* and never the empty string.
C15_OneCallWithHistoryInOrder ==
    /\ gen_pc \in {"off", "call"} => gen_sent = <<>>
    /\ gen_pc \in {"sent", "returned", "raised"} =>
          LET args == Get(gen_args)
              msgs == gen_sent[1].messages
              last == msgs[Len(msgs)]
          IN  /\ Len(gen_sent) = 1
              /\ Len(msgs) = Len(args.history) + 2
              /\ msgs[1].role = "system"
              /\ \A i \in 1..Len(args.history) :
                    /\ msgs[i + 1].role = args.history[i].role
                    /\ msgs[i + 1].content = args.history[i].content
              /\ last.role = "user"
              /\ \A i \in 1..Len(args.context_chunks) :
                    Contains(last.content,
                             Chars("Source: ") \o args.context_chunks[i].source \o <<"\n">>
                                 \o args.context_chunks[i].chunk_text)
              /\ EndsWith(last.content, args.user_message)
    /\ gen_pc = "returned" =>
          /\ gen_result # None
          /\ Get(gen_result) # <<>>
          /\ Get(gen_result) =
                IF Get(gen_content) \in {None, Some(<<>>)}
                THEN Chars("I could not generate a response.")
                ELSE Get(Get(gen_content))

\* a call with a history of three messages and several chunks, to which the
\* provider returned the empty string
C15_Witness ==
    /\ gen_pc = "returned"
    /\ Len(Get(gen_args).history) = 3
    /\ Len(Get(gen_args).context_chunks) >= 3
    /\ gen_content = Some(Some(<<>>))
    /\ gen_result = Some(Chars("I could not generate a response."))

----------------------------------------------------------------------------
(* Claims about the files and the collection of an evaluation run *)

\* the run is over
EvalEnded ==
    eval_pc \in {"done", "raised", "not_found", "config_error", "ingest_raised"}

\* C12: when the ground-truth file does not exist, evaluate_and_save raises
\* the not-found error before doing anything else: no template is reseeded,
\* no ingestion is triggered, no provider call is made, and the file at
\* output_path is neither created nor changed.
C12_MissingGroundTruthRaisesFirst ==
    (eval_pc # "off" /\ ~ground_truth_exists) =>
        /\ eval_pc \in {"call", "not_found"}
        /\ seeded = 0
        /\ ingested = 0
        /\ calls = <<>>
        /\ output_writes = 0
        /\ output_file = output_before
        /\ report = None

\* the call has raised, with an empty collection and an earlier report in
\* place
C12_Witness ==
    /\ eval_pc = "not_found"
    /\ documents = <<>>
    /\ openai_api_key
    /\ output_file = Some(EarlierReport)

\* C13: after a completed run the file at output_path holds exactly the
\* report the run returned, made of this run's metrics and records only,
\* whatever was stored there before; the file is written once, at the end
\* of the run.
C13_FileIsTheReturnedReport ==
    /\ eval_pc = "done" =>
          /\ report # None
          /\ output_file = report
          /\ output_writes = 1
          /\ Get(output_file).per_question = per_question
          /\ Len(Get(output_file).per_question) = Len(ground_truth)
          /\ Get(output_file).top_k = top_k
          /\ Get(output_file).metrics =
                Metrics(per_question, retrieval_latencies, generation_latencies,
                        total_latencies, reciprocal_ranks, precision_scores,
                        answer_context_overlaps, expected_keyword_coverages)
    /\ eval_pc \notin {"off", "done"} => output_writes = 0 /\ output_file = output_before

\* a completed run over two rows that replaced an earlier report
C13_Witness ==
    /\ eval_pc = "done"
    /\ output_before = Some(EarlierReport)
    /\ output_file # output_before
    /\ Len(Get(output_file).per_question) = 2

C18_AbortedRunLeavesFile ==
    eval_pc = "raised" =>
        /\ output_file = output_before
        /\ output_writes = 0
        /\ report = None

\* a run aborted in its second case, after the first was scored, with an
\* earlier report in place
C18_Witness ==
    /\ eval_pc = "raised"
    /\ Len(per_question) = 1
    /\ Call(2, "generate") \in Range(calls)
    /\ output_file = Some(EarlierReport)

====
